---- MODULE Spec2Model ----
(***************************************************************************)
(* SynapseTrader front end: the conversation session of                    *)
(* EnhancedConversation.tsx (the component App.tsx mounts), the recorder   *)
(* panel AnimatedAudioRecorder.tsx it renders, and the ApiService gateway. *)
(*                                                                         *)
(* One action per handler.  An async handler is cut at its await: the part *)
(* before the await is one action (it leaves a request in `pending`), the  *)
(* continuation after the await is another, taken when the HTTP response   *)
(* of that request is delivered.  Responses are delivered in any order.    *)
(* React state setters are functional updates (prev => ...), so every      *)
(* update reads the latest state.  Timestamps (new Date()) are not         *)
(* modelled; each message carries instead the id of the request and the    *)
(* session that produced it (history tags the code does not store).        *)
(***************************************************************************)
EXTENDS Integers, Sequences, FiniteSets, TLC

\* ---------------------------------------------------------------- bounds
MaxRequests == 2   \* gateway requests issued in one behaviour
MaxSessions == 2   \* handleStartConversation calls in one behaviour
MaxClips    == 1   \* recordings finished in one behaviour
MaxAcquiring == 2  \* startRecording calls suspended at one time
MaxPlays == 3      \* ApiService.playAudioFromBlob calls in one behaviour

\* ---------------------------------------------------------------- inputs
\* Text typed by the user, as sequences of characters: empty, blank, and
\* non-blank with leading white space.
ContentSet == { <<>>, <<" ">>, <<" ", "a">> }

\* ChatResponse.text, a one-token sequence like the contents.
ReplyText == { << "t1" >> }

\* ChatResponse.audio_url?: absent, the empty string, or a reference.
AudioUrls == { "undefined", "", "r1" }

\* What fetch yields: status 0 stands for a transport failure (fetch
\* rejects), 500 for a non-2xx response, 200 and 201 for 2xx responses
\* (the 201 one carries no audio reference).
HttpResponses ==
    [status : {200}, text : ReplyText, audio_url : AudioUrls]
        \cup [status : {201}, text : ReplyText, audio_url : {"undefined"}]
        \cup [status : {0, 500}, text : {<<>>}, audio_url : {"undefined"}]

NoClip == 0
NoError == <<>>

VARIABLES
    messages,              \* conversation.messages
    isLoading,             \* conversation.isLoading
    error,                 \* conversation.error (NoError for null)
    isConversationActive,  \* isConversationActive
    audioSrc,              \* audioPlayerRef.current.src
    playing,               \* the play() calls (indices of playCalls) whose
                           \* audio is sounding
    audioFailed,           \* audioPlayerRef.current.error is set
    playCalls,             \* history: the references play() was called with
    isRecording,           \* useAudioRecorder().isRecording
    audioBlob,             \* useAudioRecorder().audioBlob (NoClip for null)
    recordingError,        \* useAudioRecorder().error
    acquiring,             \* startRecording calls waiting for the device
    captures,              \* capture streams that are open and buffering
    pending,               \* handler invocations suspended at their await
    sent,                  \* history: the clips handed to sendAudioMessage
    nextId,                \* history: requests issued so far
    nextClip,              \* history: clips recorded so far
    session,               \* history: sessions started so far
    objectUrls,            \* the object URLs created and not revoked
    blobPlays              \* the calls of ApiService.playAudioFromBlob

vars == << messages, isLoading, error, isConversationActive, audioSrc, playing,
           audioFailed, playCalls, isRecording, audioBlob, recordingError,
           acquiring, captures, pending, sent, nextId, nextClip, session,
           objectUrls, blobPlays >>

convVars == << messages, isLoading, error >>
playVars == << audioSrc, playing, audioFailed, playCalls >>
recVars  == << isRecording, audioBlob, recordingError, nextClip, acquiring,
               captures >>
blobVars == << objectUrls, blobPlays >>

\* ---------------------------------------------------------------- helpers
IsSpace(ch) == ch = " "

RECURSIVE TrimStart(_)
TrimStart(s) ==
    IF s = <<>> THEN s
    ELSE IF IsSpace(Head(s)) THEN TrimStart(Tail(s)) ELSE s

RECURSIVE TrimEnd(_)
TrimEnd(s) ==
    IF s = <<>> THEN s
    ELSE IF IsSpace(s[Len(s)]) THEN TrimEnd(SubSeq(s, 1, Len(s) - 1)) ELSE s

\* String.prototype.trim
Trim(s) == TrimEnd(TrimStart(s))

\* JavaScript truthiness of a string-or-undefined value
Truthy(v) == v \notin { "undefined", "" }

VoiceMessage == << "[Voice Message]" >>

\* History tag: the session a handler is called in (0 outside any session).
CurrentSession == IF isConversationActive THEN session ELSE 0

UserMessage(content, id) ==
    [role |-> "user", content |-> content, req |-> id,
     session |-> CurrentSession]

AssistantMessage(text, r) ==
    [role |-> "assistant", content |-> text, req |-> r.id, session |-> r.session]

\* ---------------------------------------------------------------- gateway
\* Response.ok: the status is in the range 200-299.
ResponseOk(resp) == resp.status \in 200..299

\* Mutant of makeRequest: the "if (!response.ok)" test is left out, so the
\* body of any response that arrived is returned.
makeRequest_NoOkCheck(resp) ==
    IF resp.status = 0
    THEN [threw |-> TRUE, message |-> << "Failed to fetch" >>]
    ELSE [threw |-> FALSE, text |-> resp.text, audio_url |-> resp.audio_url]

\* ApiService.makeRequest: throws on a transport failure or a non-2xx status,
\* otherwise returns the parsed body.
makeRequest(resp) ==
    IF resp.status = 0
    THEN [threw |-> TRUE, message |-> << "Failed to fetch" >>]
    ELSE IF ~ResponseOk(resp)
    THEN [threw |-> TRUE, message |-> << "API request failed", resp.status >>]
    ELSE [threw |-> FALSE, text |-> resp.text, audio_url |-> resp.audio_url]

sendTextMessage(resp) == makeRequest(resp)

sendAudioMessage(resp) ==
    IF resp.status = 0
    THEN [threw |-> TRUE, message |-> << "Failed to fetch" >>]
    ELSE IF ~ResponseOk(resp)
    THEN [threw |-> TRUE, message |-> << "Audio processing failed", resp.status >>]
    ELSE [threw |-> FALSE, text |-> resp.text, audio_url |-> resp.audio_url]

Request(kind, content, clip) ==
    [id |-> nextId + 1, kind |-> kind, content |-> content, clip |-> clip,
     session |-> CurrentSession]

\* ---------------------------------------------------------------- Init
Init ==
    /\ messages = <<>>
    /\ isLoading = FALSE
    /\ error = NoError
    /\ isConversationActive = FALSE
    /\ audioSrc = "undefined"
    /\ playing = {}
    /\ audioFailed = FALSE
    /\ playCalls = <<>>
    /\ isRecording = FALSE
    /\ audioBlob = NoClip
    /\ recordingError = NoError
    /\ acquiring = 0
    /\ captures = 0
    /\ pending = {}
    /\ sent = <<>>
    /\ nextId = 0
    /\ nextClip = 0
    /\ session = 0
    /\ objectUrls = {}
    /\ blobPlays = <<>>

\* ---------------------------------------------------------------- session
\* The Start Conversation button is rendered only while the conversation
\* is not active.
handleStartConversation ==
    /\ UNCHANGED blobVars
    /\ ~isConversationActive
    /\ session < MaxSessions
    /\ isConversationActive' = TRUE
    /\ session' = session + 1
    /\ UNCHANGED << convVars, playVars, recVars, pending, sent, nextId >>

\* The messages handleEndConversation leaves.
EndMessages(msgs) == <<>>

\* Unmounting AnimatedAudioRecorder discards the state of its hook; a
\* startRecording call that resumes afterwards finds no mounted component.
handleEndConversation ==
    /\ UNCHANGED blobVars
    /\ isConversationActive' = FALSE
    /\ messages' = EndMessages(messages)
    /\ isRecording' = FALSE
    /\ audioBlob' = NoClip
    /\ recordingError' = NoError
    /\ acquiring' = 0
    /\ captures' = 0
    /\ UNCHANGED << isLoading, error, playVars, pending, sent, nextId, nextClip,
                    session >>

\* ---------------------------------------------------------------- playback
\* audioPlayerRef.current.src = url; audioPlayerRef.current.play()
\* (the <audio> element is always rendered, so the ref is never null).
\* Mutant of PlayAudio: every reply gets an element of its own (as in
\* ApiService.playAudioFromDataUrl), so an earlier playback is not stopped.
PlayAudio_Overlap(url) ==
    /\ audioSrc' = url
    /\ playing' = playing \cup { Len(playCalls) + 1 }
    /\ audioFailed' = FALSE
    /\ playCalls' = Append(playCalls, url)

\* Assigning src makes the element load the new resource, which ends what
\* it was playing and resets its error.
PlayAudio(url) ==
    /\ audioSrc' = url
    /\ playing' = { Len(playCalls) + 1 }
    /\ audioFailed' = FALSE
    /\ playCalls' = Append(playCalls, url)

\* Mutant of PlayIfAvailable: the audio_url test is left out.
PlayIfAvailable_Always(url) == PlayAudio(url)

\* "if (response.audio_url && audioPlayerRef.current) { ... }"
PlayIfAvailable(url) ==
    IF Truthy(url) THEN PlayAudio(url) ELSE UNCHANGED playVars

\* The element's playback reaches its end.
audio_onended ==
    /\ UNCHANGED blobVars
    /\ playing # {}
    /\ playing' = {}
    /\ UNCHANGED << convVars, isConversationActive, audioSrc, audioFailed,
                    playCalls, recVars, pending, sent, nextId, session >>

\* Mutant of audio_onerror: the failure takes back the reply it belongs to.
audio_onerror_Rollback ==
    /\ UNCHANGED blobVars
    /\ playing # {}
    /\ playing' = {}
    /\ audioFailed' = TRUE
    /\ messages' = IF messages = <<>> THEN messages
                   ELSE SubSeq(messages, 1, Len(messages) - 1)
    /\ UNCHANGED << isLoading, error, isConversationActive, audioSrc, playCalls,
                    recVars, pending, sent, nextId, session >>

\* The playback fails: play() rejects or the element fires its error event.
\* The promise play() returns is neither awaited nor caught and the element
\* has no error handler, so nothing of the component's state changes.
audio_onerror ==
    /\ UNCHANGED blobVars
    /\ playing # {}
    /\ playing' = {}
    /\ audioFailed' = TRUE
    /\ UNCHANGED << convVars, isConversationActive, audioSrc, playCalls,
                    recVars, pending, sent, nextId, session >>

\* ---------------------------------------------------------------- text
\* Mutant of SendGuard: the content is tested without being trimmed.
SendGuard_Untrimmed(content) == content # <<>>

\* The guard at the top of handleSendMessage: TRUE when the call goes on.
SendGuard(content) == Trim(content) # <<>>

\* handleSendMessage up to its await: the optimistic update and the request.
handleSendMessage(content) ==
    /\ UNCHANGED blobVars
    /\ SendGuard(content)
    /\ nextId < MaxRequests
    /\ messages' = Append(messages, UserMessage(content, nextId + 1))
    /\ isLoading' = TRUE
    /\ error' = NoError
    /\ pending' = pending \cup { Request("text", content, NoClip) }
    /\ nextId' = nextId + 1
    /\ UNCHANGED << isConversationActive, playVars, recVars, sent, session >>

\* handleSendMessage called with blank content returns at once.
handleSendMessage_blank(content) ==
    /\ ~SendGuard(content)
    /\ UNCHANGED vars

\* Mutant of TextReplyMessages: the reply is put in front of the transcript.
TextReplyMessages_Prepend(msgs, text, r) ==
    << AssistantMessage(text, r) >> \o msgs

\* Mutant of TextReplyMessages: the reply is appended to the transcript as
\* it was when the call was made (a snapshot taken before the await, which
\* ends with the User turn of r) and not to the latest one.
TextReplyMessages_Stale(msgs, text, r) ==
    LET at == { i \in 1..Len(msgs) :
                    msgs[i].role = "user" /\ msgs[i].req = r.id }
        n  == IF at = {} THEN 0 ELSE CHOOSE i \in at : TRUE
    IN  Append(SubSeq(msgs, 1, n), AssistantMessage(text, r))

\* The messages after a text reply r <- text has been applied.
TextReplyMessages(msgs, text, r) == Append(msgs, AssistantMessage(text, r))

\* handleSendMessage after its await, the try branch.
handleSendMessage_then(r, resp) ==
    LET res == sendTextMessage(resp) IN
    /\ UNCHANGED blobVars
    /\ r \in pending
    /\ r.kind = "text"
    /\ ~res.threw
    /\ messages' = TextReplyMessages(messages, res.text, r)
    /\ isLoading' = FALSE
    /\ PlayIfAvailable(res.audio_url)
    /\ pending' = pending \ {r}
    /\ UNCHANGED << error, isConversationActive, recVars, sent, nextId, session >>

\* Mutant of CatchMessages: the optimistic turn is rolled back on failure.
CatchMessages_Rollback(msgs) ==
    IF msgs = <<>> THEN msgs ELSE SubSeq(msgs, 1, Len(msgs) - 1)

\* The messages after a failed exchange.
CatchMessages(msgs) == msgs

\* Mutant of handleSendMessage_catch: the catch branch leaves isLoading set.
handleSendMessage_catch_KeepLoading(r, resp) ==
    LET res == sendTextMessage(resp) IN
    /\ UNCHANGED blobVars
    /\ r \in pending
    /\ r.kind = "text"
    /\ res.threw
    /\ error' = res.message
    /\ pending' = pending \ {r}
    /\ UNCHANGED << messages, isLoading, isConversationActive, playVars,
                    recVars, sent, nextId, session >>

\* handleSendMessage after its await, the catch branch.
handleSendMessage_catch(r, resp) ==
    LET res == sendTextMessage(resp) IN
    /\ UNCHANGED blobVars
    /\ r \in pending
    /\ r.kind = "text"
    /\ res.threw
    /\ messages' = CatchMessages(messages)
    /\ isLoading' = FALSE
    /\ error' = res.message
    /\ pending' = pending \ {r}
    /\ UNCHANGED << isConversationActive, playVars, recVars, sent, nextId,
                    session >>

\* ---------------------------------------------------------------- recorder
\* useAudioRecorder().startRecording up to its await: the capture device
\* is requested.
startRecording ==
    /\ nextClip < MaxClips
    /\ acquiring < MaxAcquiring
    /\ acquiring' = acquiring + 1
    /\ UNCHANGED << isRecording, audioBlob, recordingError, nextClip, captures >>

\* useAudioRecorder().startRecording after its await: the device has been
\* acquired and buffering begins, or the request has failed, which clears
\* the staged clip and sets the hook's error.
startRecording_then(acquired) ==
    /\ acquiring > 0
    /\ acquiring' = acquiring - 1
    /\ IF acquired
       THEN /\ isRecording' = TRUE
            /\ captures' = captures + 1
            /\ recordingError' = NoError
            /\ UNCHANGED audioBlob
       ELSE /\ recordingError' = << "PermissionDenied" >>
            /\ audioBlob' = NoClip
            /\ UNCHANGED << isRecording, captures >>
    /\ UNCHANGED nextClip

\* useAudioRecorder().stopRecording: the chunks become the staged clip and
\* the device is released.
stopRecording ==
    /\ nextClip < MaxClips
    /\ isRecording' = FALSE
    /\ captures' = 0
    /\ audioBlob' = nextClip + 1
    /\ nextClip' = nextClip + 1
    /\ UNCHANGED << recordingError, acquiring >>

\* useAudioRecorder().clearRecording: the staged clip is dropped.
clearRecording == audioBlob' = NoClip

\* The record button of AnimatedAudioRecorder (disabled while isLoading),
\* up to the await of startRecording().
handleRecordingToggle ==
    /\ UNCHANGED blobVars
    /\ isConversationActive
    /\ ~isLoading
    /\ IF isRecording THEN stopRecording ELSE startRecording
    /\ UNCHANGED << convVars, isConversationActive, playVars, pending, sent,
                    nextId, session >>

\* Mutant of AfterStartRecording: a failed start is reported to the
\* conversation the way the catch branches of the exchanges do.
AfterStartRecording_EndsLoading(acquired) ==
    /\ isLoading' = (IF acquired THEN isLoading ELSE FALSE)
    /\ UNCHANGED << messages, error, isConversationActive, playVars, pending,
                    sent, nextId, session >>

\* handleRecordingToggle after "await startRecording()": the handler ends,
\* and the recorder panel holds no setter of the conversation state.
AfterStartRecording(acquired) ==
    UNCHANGED << convVars, isConversationActive, playVars, pending, sent,
                 nextId, session >>

\* handleRecordingToggle resumed by the outcome of startRecording().
handleRecordingToggle_then(acquired) ==
    /\ UNCHANGED blobVars
    /\ isConversationActive
    /\ startRecording_then(acquired)
    /\ AfterStartRecording(acquired)

\* Mutant of handleProcessRecording: the placeholder turn is appended at
\* the call, as handleSendMessage does with the typed text.
handleProcessRecording_Optimistic(blob) ==
    /\ isLoading' = TRUE
    /\ error' = NoError
    /\ pending' = pending \cup { Request("audio", VoiceMessage, blob) }
    /\ sent' = Append(sent, blob)
    /\ nextId' = nextId + 1
    /\ messages' = Append(messages, UserMessage(VoiceMessage, nextId + 1))

\* EnhancedConversation.handleProcessRecording up to its await.
handleProcessRecording(blob) ==
    /\ isLoading' = TRUE
    /\ error' = NoError
    /\ pending' = pending \cup { Request("audio", VoiceMessage, blob) }
    /\ sent' = Append(sent, blob)
    /\ nextId' = nextId + 1
    /\ UNCHANGED messages

\* Mutant of AfterProcessRecording: clearRecording() is not called.
AfterProcessRecording_KeepClip ==
    UNCHANGED << audioBlob, isRecording, recordingError, nextClip, acquiring,
                 captures >>

\* What AnimatedAudioRecorder.handleProcessRecording does to the hook after
\* it has handed the clip to onProcessRecording.
AfterProcessRecording ==
    /\ clearRecording
    /\ UNCHANGED << isRecording, recordingError, nextClip, acquiring, captures >>

\* Mutant of ClipStaged: the handler does not test audioBlob.
ClipStaged_Untested == TRUE

\* "if (audioBlob)" in AnimatedAudioRecorder.handleProcessRecording.
ClipStaged == audioBlob # NoClip

\* The Send button of AnimatedAudioRecorder, disabled while isLoading; the
\* handler goes on only when a clip is staged.
Recorder_handleProcessRecording ==
    /\ UNCHANGED blobVars
    /\ isConversationActive
    /\ ~isLoading
    /\ ClipStaged
    /\ nextId < MaxRequests
    /\ handleProcessRecording(audioBlob)
    /\ AfterProcessRecording
    /\ UNCHANGED << isConversationActive, playVars, session >>

\* AnimatedAudioRecorder.handleProcessRecording called with no clip staged
\* does nothing.
Recorder_handleProcessRecording_noclip ==
    /\ isConversationActive
    /\ ~isLoading
    /\ ~ClipStaged
    /\ UNCHANGED vars

\* Mutant of Recorder_clearRecording: the Clear button is wired to the
\* handler of the Send button.
Recorder_clearRecording_Sends ==
    /\ UNCHANGED blobVars
    /\ isConversationActive
    /\ audioBlob # NoClip
    /\ nextId < MaxRequests
    /\ handleProcessRecording(audioBlob)
    /\ AfterProcessRecording
    /\ UNCHANGED << isConversationActive, playVars, session >>

\* The Clear button of AnimatedAudioRecorder: rendered while a clip is staged.
Recorder_clearRecording ==
    /\ UNCHANGED blobVars
    /\ isConversationActive
    /\ audioBlob # NoClip
    /\ clearRecording
    /\ UNCHANGED << convVars, isConversationActive, playVars, isRecording,
                    recordingError, nextClip, acquiring, captures, pending,
                    sent, nextId, session >>

\* The Clear button clicked again while the preview, whose clip is gone,
\* leaves the screen (its exit transition lasts 0.4 s).
Recorder_clearRecording_again ==
    /\ UNCHANGED blobVars
    /\ isConversationActive
    /\ audioBlob = NoClip
    /\ clearRecording
    /\ UNCHANGED << convVars, isConversationActive, playVars, isRecording,
                    recordingError, nextClip, acquiring, captures, pending,
                    sent, nextId, session >>

\* The messages after an audio reply r <- text has been applied.
AudioReplyMessages(msgs, text, r) ==
    msgs \o << [role |-> "user", content |-> VoiceMessage, req |-> r.id,
                session |-> r.session],
               AssistantMessage(text, r) >>

\* handleProcessRecording after its await, the try branch.
handleProcessRecording_then(r, resp) ==
    LET res == sendAudioMessage(resp) IN
    /\ UNCHANGED blobVars
    /\ r \in pending
    /\ r.kind = "audio"
    /\ ~res.threw
    /\ messages' = AudioReplyMessages(messages, res.text, r)
    /\ isLoading' = FALSE
    /\ PlayIfAvailable(res.audio_url)
    /\ pending' = pending \ {r}
    /\ UNCHANGED << error, isConversationActive, recVars, sent, nextId, session >>

\* handleProcessRecording after its await, the catch branch.
handleProcessRecording_catch(r, resp) ==
    LET res == sendAudioMessage(resp) IN
    /\ UNCHANGED blobVars
    /\ r \in pending
    /\ r.kind = "audio"
    /\ res.threw
    /\ messages' = CatchMessages(messages)
    /\ isLoading' = FALSE
    /\ error' = res.message
    /\ pending' = pending \ {r}
    /\ UNCHANGED << isConversationActive, playVars, recVars, sent, nextId,
                    session >>

\* ---------------------------------------------------------------- render
\* The handlers the controls on the screen call, enabled controls only: the
\* Start button while the conversation is not active, the recorder panel
\* (record button, and Send and Clear in the preview of a staged clip)
\* while it is.  No element of EnhancedConversation refers to
\* handleEndConversation or handleSendMessage.
RenderedControls ==
    IF ~isConversationActive
    THEN { "handleStartConversation" }
    ELSE (IF isLoading THEN {} ELSE { "handleRecordingToggle" })
         \cup (IF audioBlob # NoClip /\ ~isLoading
               THEN { "handleProcessRecording" } ELSE {})
         \cup (IF audioBlob # NoClip THEN { "clearRecording" } ELSE {})

\* endSession as the screen offers it: a control calling the handler.
EndControl ==
    /\ "handleEndConversation" \in RenderedControls
    /\ handleEndConversation

\* ---------------------------------------------------------------- Next
Next ==
    \/ handleStartConversation
    \/ handleEndConversation
    \/ \E c \in ContentSet : handleSendMessage(c)
    \/ \E c \in ContentSet : handleSendMessage_blank(c)
    \/ \E r \in pending, resp \in HttpResponses : handleSendMessage_then(r, resp)
    \/ \E r \in pending, resp \in HttpResponses : handleSendMessage_catch(r, resp)
    \/ handleRecordingToggle
    \/ \E acquired \in BOOLEAN : handleRecordingToggle_then(acquired)
    \/ Recorder_handleProcessRecording
    \/ Recorder_handleProcessRecording_noclip
    \/ Recorder_clearRecording
    \/ Recorder_clearRecording_again
    \/ \E r \in pending, resp \in HttpResponses : handleProcessRecording_then(r, resp)
    \/ \E r \in pending, resp \in HttpResponses : handleProcessRecording_catch(r, resp)
    \/ audio_onended
    \/ audio_onerror

Spec == Init /\ [][Next]_vars

\* The response of an outstanding gateway call arrives.
DeliverResponse ==
    \E r \in pending, resp \in HttpResponses :
        \/ handleSendMessage_then(r, resp)
        \/ handleSendMessage_catch(r, resp)
        \/ handleProcessRecording_then(r, resp)
        \/ handleProcessRecording_catch(r, resp)

\* Every gateway call eventually ends, with a response or a failure.
LiveSpec == Spec /\ WF_vars(DeliverResponse)

\* ------------------------------------------------- playAudioFromBlob
\* ApiService.playAudioFromBlob has no caller in the application; it is
\* specified on its own, applied to any blob, with the events of the Audio
\* element it creates.
appVars == << convVars, isConversationActive, playVars, recVars, pending, sent,
             nextId, session >>

\* resolve() or reject() on the returned promise: a promise that is
\* settled ignores the call.
Settle(promise, outcome) == IF promise = "pending" THEN outcome ELSE promise

\* The call i with its fields f changed.
WithPlay(i, f) ==
    [blobPlays EXCEPT ![i] = [k \in DOMAIN @ |->
                                 IF k \in DOMAIN f THEN f[k] ELSE @[k]]]

\* playAudioFromBlob up to "return new Promise(...)": an object URL is
\* created, an Audio element is made for it, the handlers are set and
\* play() is called.
playAudioFromBlob ==
    /\ Len(blobPlays) < MaxPlays
    /\ LET url == Len(blobPlays) + 1 IN
         /\ objectUrls' = objectUrls \cup { url }
         /\ blobPlays' = Append(blobPlays,
                [url |-> url, element |-> "loading",
                 playPromise |-> "pending", promise |-> "pending"])
    /\ UNCHANGED appVars

\* The promise of play() is fulfilled: playback has begun.  No handler is
\* attached to that outcome.
playAudioFromBlob_play_then(i) ==
    /\ blobPlays[i].element = "loading"
    /\ blobPlays[i].playPromise = "pending"
    /\ blobPlays' = WithPlay(i, [element |-> "playing",
                                 playPromise |-> "fulfilled"])
    /\ UNCHANGED << objectUrls, appVars >>

\* "audio.play().catch(reject)": the promise of play() is rejected, because
\* playback was not allowed to begin (the element stays paused, no event
\* follows) or after the element has failed to load its source.
playAudioFromBlob_play_catch(i) ==
    /\ blobPlays[i].element \in { "loading", "error" }
    /\ blobPlays[i].playPromise = "pending"
    /\ blobPlays' = WithPlay(i,
            [element |-> IF blobPlays[i].element = "loading"
                         THEN "blocked" ELSE "error",
             playPromise |-> "rejected",
             promise |-> Settle(blobPlays[i].promise, "rejected")])
    /\ UNCHANGED << objectUrls, appVars >>

\* audio.onended
playAudioFromBlob_onended(i) ==
    /\ blobPlays[i].element = "playing"
    /\ objectUrls' = objectUrls \ { blobPlays[i].url }
    /\ blobPlays' = WithPlay(i,
            [element |-> "ended",
             promise |-> Settle(blobPlays[i].promise, "fulfilled")])
    /\ UNCHANGED appVars

\* audio.onerror: the source cannot be loaded, or decoding fails while it
\* plays.
playAudioFromBlob_onerror(i) ==
    /\ blobPlays[i].element \in { "loading", "playing" }
    /\ objectUrls' = objectUrls \ { blobPlays[i].url }
    /\ blobPlays' = WithPlay(i,
            [element |-> "error",
             promise |-> Settle(blobPlays[i].promise, "rejected")])
    /\ UNCHANGED appVars

BlobNext ==
    \/ playAudioFromBlob
    \/ \E i \in 1..Len(blobPlays) : playAudioFromBlob_play_then(i)
    \/ \E i \in 1..Len(blobPlays) : playAudioFromBlob_play_catch(i)
    \/ \E i \in 1..Len(blobPlays) : playAudioFromBlob_onended(i)
    \/ \E i \in 1..Len(blobPlays) : playAudioFromBlob_onerror(i)

BlobSpec == Init /\ [][BlobNext]_vars

\* ================================================================ claims
\* The session state of the specification, read off the component's flags.
SessionState ==
    IF ~isConversationActive THEN "Idle"
    ELSE IF isLoading THEN "AwaitingReply"
    ELSE IF isRecording THEN "Recording"
    ELSE IF playing # {} THEN "Playing"
    ELSE "Active"

\* Role and content of the turns of a transcript, without the history tags.
Turn(m) == [role |-> m.role, content |-> m.content]
Turns(msgs) == [i \in 1..Len(msgs) |-> Turn(msgs[i])]

User(c) == [role |-> "user", content |-> c]
Assistant(t) == [role |-> "assistant", content |-> t]

\* The last turn of the transcript is the User turn of request r.
LastIsUserTurnOf(r) ==
    /\ messages # <<>>
    /\ messages[Len(messages)].role = "user"
    /\ messages[Len(messages)].req = r.id

\* The requests issued by this step, and those whose response it delivers.
Issued == pending' \ pending
Delivered == pending \ pending'

\* endSession has been called since request r was issued in a session.
EndedSince(r) ==
    /\ r.session # 0
    /\ r.session # CurrentSession

\* ---------------------------------------------------------------- C1
\* C1: while an exchange is outstanding (isLoading true) a further
\* submitText or sendRecording call is rejected: no step taken while
\* isLoading issues a gateway request or appends the User turn of a new
\* submission.
C1_BusyRejects ==
    [][isLoading =>
        /\ Issued = {}
        /\ \A c \in ContentSet :
               Turns(messages') # Append(Turns(messages), User(c))]_vars

\* ---------------------------------------------------------------- C2
\* C2: every Assistant turn of the transcript sits immediately after the
\* User turn that triggered it (the turn of the same request).  Stated of
\* the turns produced in the current session.
C2_CausalOrder ==
    \A i \in 1..Len(messages) :
        /\ messages[i].role = "assistant"
        /\ messages[i].session # 0
        /\ messages[i].session = CurrentSession
        => /\ i > 1
           /\ messages[i - 1].role = "user"
           /\ messages[i - 1].req = messages[i].req

\* ---------------------------------------------------------------- C3
\* C3: a response delivered after endSession was called is discarded: the
\* step that delivers it appends no turn, sets no error and makes no play
\* call.
C3_LateResponseDiscarded ==
    [][\A r \in Delivered :
          EndedSince(r) =>
              /\ messages' = messages
              /\ error' = error
              /\ playCalls' = playCalls]_vars

\* ---------------------------------------------------------------- C4
\* C4: endSession, called in any state of a started session, leaves the
\* session Idle with an empty transcript and with no exchange marked as
\* outstanding.
C4_EndSessionResets ==
    [][isConversationActive /\ handleEndConversation =>
          /\ SessionState' = "Idle"
          /\ messages' = <<>>
          /\ ~isLoading']_vars

\* ---------------------------------------------------------------- C5
\* C5: in every reachable state at most one gateway exchange started in a
\* session is outstanding.
C5_AtMostOneExchange ==
    Cardinality({ r \in pending : r.session # 0 }) <= 1

\* ---------------------------------------------------------------- C6
\* A step issues exactly the text request r for content c.
IssuesText(r) == Issued = {r} /\ r.kind = "text"

\* The transcript gains exactly the turns ts, in order, at its end.
Gains(ts) == Turns(messages') = Turns(messages) \o ts

\* C6: submitText(c) with non-blank c, called in Active with no exchange
\* outstanding, appends User:c in the same step and enters AwaitingReply;
\* when the gateway then succeeds with text t, the transcript is the one the
\* call left followed by Assistant:t, and the session is Active again (in
\* session, nothing marked outstanding).
C6_SubmitThenReply ==
    [][/\ \A r \in Issued :
            /\ IssuesText(r)
            /\ isConversationActive
            /\ ~isLoading
            /\ pending = {}
            => /\ Trim(r.content) # <<>>
               /\ Gains(<< User(r.content) >>)
               /\ SessionState' = "AwaitingReply"
       /\ \A r \in pending, resp \in HttpResponses :
            /\ handleSendMessage_then(r, resp)
            /\ isConversationActive
            /\ LastIsUserTurnOf(r)
            => /\ Gains(<< Assistant(resp.text) >>)
               /\ isConversationActive'
               /\ ~isLoading']_vars

\* Scenario A has run: [User:c, Assistant:t], nothing outstanding.
C6_Witness ==
    /\ isConversationActive
    /\ ~isLoading
    /\ pending = {}
    /\ Turns(messages) = << User(<< " ", "a" >>), Assistant(<< "t1" >>) >>
    /\ messages[1].req = messages[2].req

\* ---------------------------------------------------------------- C7
\* The error message a failed response leaves: the status text of a non-2xx
\* response, the transport's message otherwise.
FailureOf(err, resp) ==
    /\ err # NoError
    /\ resp.status # 0 => err[Len(err)] = resp.status
    /\ resp.status = 0 => err = << "Failed to fetch" >>

\* C7: when the gateway call made by submitText(c) fails, the transcript
\* stays as the call left it (previous turns, then User:c, no Assistant
\* turn), lastError is set from the failure and the session is Active again.
C7_SubmitFailureKeepsTurn ==
    [][\A r \in pending, resp \in HttpResponses :
            /\ handleSendMessage_catch(r, resp)
            /\ isConversationActive
            /\ LastIsUserTurnOf(r)
            => /\ messages' = messages
               /\ Turn(messages'[Len(messages')]) = User(r.content)
               /\ FailureOf(error', resp)
               /\ isConversationActive'
               /\ ~isLoading']_vars

\* Scenario C has run: [User:c] only, an error recorded, nothing outstanding.
C7_Witness ==
    /\ isConversationActive
    /\ ~isLoading
    /\ pending = {}
    /\ Turns(messages) = << User(<< " ", "a" >>) >>
    /\ error = << "API request failed", 500 >>

HasAudioReference(resp) == resp.audio_url \notin { "undefined", "" }

\* The play calls a delivered reply resp must cause: one, with its
\* reference, or none.
PlaysReplyOf(resp) ==
    playCalls' = IF HasAudioReference(resp)
                 THEN Append(playCalls, resp.audio_url)
                 ELSE playCalls

\* C9: when sendRecording's gateway call succeeds with {text t, reference
\* r}, the transcript gains a placeholder User turn followed by Assistant:t
\* and the sink gets exactly one play call, with r; a reply (to
\* sendRecording or submitText) without a reference causes no play call.
C9_ReplyPlayback ==
    [][\A r \in pending, resp \in HttpResponses :
            /\ handleProcessRecording_then(r, resp)
                => /\ Gains(<< User(VoiceMessage), Assistant(resp.text) >>)
                   /\ PlaysReplyOf(resp)
                   /\ HasAudioReference(resp) => audioSrc' = resp.audio_url
            /\ handleSendMessage_then(r, resp)
                => PlaysReplyOf(resp)]_vars

\* Scenario B has run: placeholder and reply, one play call with r1.
C9_Witness ==
    /\ Turns(messages) = << User(VoiceMessage), Assistant(<< "t1" >>) >>
    /\ playCalls = << "r1" >>
    /\ audioSrc = "r1"
    /\ pending = {}

\* ---------------------------------------------------------------- C10
\* C10: once the exchange of a sendRecording call has completed, by
\* success or by failure, the clip it sent is not staged (nor is it while
\* the exchange is outstanding).
C10_ClipDiscarded ==
    [][\A r \in pending :
            r.kind = "audio" =>
                /\ audioBlob # r.clip
                /\ r \in Delivered => audioBlob' # r.clip]_vars

\* An audio exchange has completed in a session that still runs, and no
\* clip is staged.
C10_Witness ==
    /\ isConversationActive
    /\ nextClip >= 1
    /\ audioBlob = NoClip
    /\ pending = {}
    /\ \/ \E i \in 1..Len(messages) : messages[i].content = VoiceMessage
       \/ (error # NoError /\ error[1] = "Audio processing failed")

\* ---------------------------------------------------------------- C11
\* C11: each recorded clip is consumed at most once: no clip is handed to
\* the gateway in two different requests, whatever sends, failures and
\* retries there are.
C11_ClipSentOnce ==
    \A i, j \in 1..Len(sent) : sent[i] = sent[j] => i = j

\* A clip has been sent, its exchange has failed, and the session goes on
\* with nothing outstanding and nothing staged to retry with.
C11_Witness ==
    /\ isConversationActive
    /\ sent = << 1 >>
    /\ pending = {}
    /\ ~isLoading
    /\ error # NoError
    /\ audioBlob = NoClip

\* ---------------------------------------------------------------- C12
\* C12: sendRecording called when no clip is staged does nothing: a step
\* taken while no clip is staged issues no audio request and hands nothing
\* to the gateway, and every audio request carries the clip that was staged
\* when it was issued.
C12_NoClipNoRequest ==
    [][/\ audioBlob = NoClip =>
            /\ \A r \in Issued : r.kind # "audio"
            /\ sent' = sent
       /\ \A r \in Issued :
            r.kind = "audio" => r.clip # NoClip /\ r.clip = audioBlob]_vars

\* The recorder is shown, enabled, with no clip staged (one was recorded
\* and cleared), and nothing has been handed to the gateway.
C12_Witness ==
    /\ isConversationActive
    /\ ~isLoading
    /\ audioBlob = NoClip
    /\ nextClip >= 1
    /\ sent = <<>>
    /\ nextId = 0
    /\ messages = <<>>

\* ---------------------------------------------------------------- C13
\* s is a prefix of t.
IsPrefix(s, t) == Len(s) <= Len(t) /\ SubSeq(t, 1, Len(s)) = s

\* C13: the transcript is append-only within a session: every transition
\* other than startSession and endSession leaves the transcript it found as
\* a prefix of the one it leaves.
C13_AppendOnly ==
    [][\/ handleStartConversation
       \/ handleEndConversation
       \/ IsPrefix(messages, messages')]_vars

\* Two exchanges of one session, the first answered: three turns.
C13_Witness ==
    /\ isConversationActive
    /\ Len(messages) = 3
    /\ \A i \in 1..3 : messages[i].session = session
    /\ messages[2].role = "assistant"
    /\ messages[3].role = "user"

\* ---------------------------------------------------------------- C14
\* C14: endSession clears lastError: right after endSession, called in a
\* started session, the session holds no error.
C14_EndSessionClearsError ==
    [][isConversationActive /\ handleEndConversation => error' = NoError]_vars

\* ---------------------------------------------------------------- C15
\* C15: startSession moves Idle to Active with an empty transcript, whatever
\* the earlier sessions were (stated of histories whose turns all come from
\* requests made in a session); it issues no request and starts no recording
\* or playback.
C15_StartSessionFresh ==
    [][/\ handleStartConversation
       /\ \A i \in 1..Len(messages) : messages[i].session # 0
       => /\ isConversationActive'
          /\ messages' = <<>>
          /\ Issued = {}
          /\ ~isRecording'
          /\ playCalls' = playCalls]_vars

\* ---------------------------------------------------------------- C16
\* C16: lastError is transient: when an exchange made in the current session
\* completes successfully, the session holds no error afterwards.
C16_SuccessClearsError ==
    [][\A r \in pending, resp \in HttpResponses :
            /\ \/ handleSendMessage_then(r, resp)
               \/ handleProcessRecording_then(r, resp)
            /\ r.session # 0
            /\ r.session = CurrentSession
            => error' = NoError]_vars

\* ---------------------------------------------------------------- C17
\* C17: if every gateway call eventually ends, every state with an exchange
\* marked outstanding (AwaitingReply) is eventually followed by one where
\* the loading flag is false: no outcome leaves the session stuck.
C17_NeverStuckAwaiting == isLoading ~> ~isLoading

\* An exchange has failed and the session is usable again.
C17_Witness ==
    /\ isConversationActive
    /\ ~isLoading
    /\ pending = {}
    /\ nextId >= 1
    /\ error # NoError
    /\ SessionState = "Active"

C19_SinglePlayback ==
    /\ Cardinality(playing) <= 1
    /\ playing \subseteq { Len(playCalls) }

\* Two replies with audio have arrived; the second is the one sounding.
C19_Witness ==
    /\ Len(playCalls) = 2
    /\ playing = { 2 }
    /\ audioSrc = playCalls[2]

\* ---------------------------------------------------------------- C20
\* C20: a playback failure leaves the transcript unchanged: the Assistant
\* turn of the reply is still there, with its content and position.
C20_PlaybackFailureKeepsTurn ==
    [][~audioFailed /\ audioFailed' => messages' = messages]_vars

\* The audio of the last reply has failed to play and its Assistant turn is
\* the last turn of the transcript.
C20_Witness ==
    /\ isConversationActive
    /\ audioFailed
    /\ playing = {}
    /\ messages # <<>>
    /\ messages[Len(messages)].role = "assistant"
    /\ Len(playCalls) >= 1

\* ---------------------------------------------------------------- C21
\* C21: when the playback of a reply's audio fails in a session with no
\* exchange outstanding and no recording (stated of transcripts whose turns
\* all come from the running session), the session is Active again and
\* lastError is set.
C21_PlaybackFailureReported ==
    [][/\ ~audioFailed
       /\ audioFailed'
       /\ isConversationActive
       /\ ~isLoading
       /\ ~isRecording
       /\ \A i \in 1..Len(messages) : messages[i].session = session
       => /\ SessionState' = "Active"
          /\ error' # NoError]_vars

\* ---------------------------------------------------------------- C22
\* C22: a capture error (startRecording resumes without the device) changes
\* neither the transcript nor the loading flag, leaves no clip staged, and
\* leaves the session where it was (Active stays Active) with the
\* conversation still running, so that a submission is accepted as before.
C22_CaptureErrorLocal ==
    [][handleRecordingToggle_then(FALSE) =>
          /\ messages' = messages
          /\ isLoading' = isLoading
          /\ audioBlob' = NoClip
          /\ isConversationActive'
          /\ SessionState' = SessionState
          /\ pending' = pending]_vars

\* A capture error is shown in an Active session: a clip had been recorded,
\* none is staged and none was sent.
C22_Witness ==
    /\ SessionState = "Active"
    /\ recordingError # NoError
    /\ nextClip >= 1
    /\ audioBlob = NoClip
    /\ sent = <<>>
    /\ messages = <<>>

\* ---------------------------------------------------------------- C23
\* Everything but the staged clip.
AllButClip ==
    << convVars, isConversationActive, playVars, isRecording, recordingError,
       nextClip, acquiring, captures, pending, sent, nextId, session,
       blobVars >>

\* C23: discardRecording with a clip staged drops the clip and changes
\* nothing else (no request, no turn); called again, or with no clip staged,
\* it changes nothing at all.
C23_DiscardIdempotent ==
    [][Recorder_clearRecording \/ Recorder_clearRecording_again =>
          /\ audioBlob' = NoClip
          /\ Issued = {}
          /\ sent' = sent
          /\ messages' = messages
          /\ UNCHANGED AllButClip
          /\ audioBlob = NoClip => UNCHANGED vars]_vars

\* A clip was recorded and discarded: nothing staged, nothing sent, and the
\* recorder is not capturing.
C23_Witness ==
    /\ isConversationActive
    /\ nextClip >= 1
    /\ audioBlob = NoClip
    /\ recordingError = NoError
    /\ ~isRecording
    /\ acquiring = 0
    /\ sent = <<>>
    /\ nextId = 0

\* ---------------------------------------------------------------- C24
\* C24: submitText is accepted only in a running session: a step taken in
\* Idle issues no gateway request and appends no User turn.
C24_IdleRejectsSubmit ==
    [][~isConversationActive =>
          /\ Issued = {}
          /\ \A c \in ContentSet :
                 Turns(messages') # Append(Turns(messages), User(c))]_vars

C26_LoadingAccurate ==
    /\ isConversationActive
    /\ \A r \in pending : r.session = session
    => (isLoading <=> pending # {})

\* ---------------------------------------------------------------- C27
\* Message m is in the transcript msgs.
Has(msgs, m) == \E i \in 1..Len(msgs) : msgs[i] = m

\* C27: no accepted turn is lost to an interleaving: the User turn of an
\* accepted submitText and the Assistant turn of a delivered successful
\* response are in the transcript the step leaves, and every turn of the
\* transcript is still in it after every step other than endSession.
C27_NoTurnLost ==
    [][/\ \A r \in Issued :
            r.kind = "text" =>
                Has(messages', [role |-> "user", content |-> r.content,
                                req |-> r.id, session |-> r.session])
       /\ \A r \in Delivered, resp \in HttpResponses :
            \/ handleSendMessage_then(r, resp)
            \/ handleProcessRecording_then(r, resp)
            => Has(messages', AssistantMessage(resp.text, r))
       /\ \/ handleEndConversation
          \/ \A i \in 1..Len(messages) : Has(messages', messages[i])]_vars

\* Two overlapping submissions of one session, answered in the reverse
\* order: all four turns are in the transcript.
C27_Witness ==
    /\ isConversationActive
    /\ Len(messages) = 4
    /\ \A i \in 1..4 : messages[i].session = session
    /\ messages[3].role = "assistant" /\ messages[3].req = 2
    /\ messages[4].role = "assistant" /\ messages[4].req = 1

\* ---------------------------------------------------------------- C28
\* C28: submitText with empty or blank content is a no-op: the handler
\* never goes past its guard with such content, no step appends a User
\* turn or issues a request with it, and the call leaves every variable
\* (the loading flag and an existing error among them) as it was.
C28_BlankSubmitNoOp ==
    [][\A c \in ContentSet :
          Trim(c) = <<>> =>
              /\ ~handleSendMessage(c)
              /\ Turns(messages') # Append(Turns(messages), User(c))
              /\ \A r \in Issued : r.content # c
              /\ handleSendMessage_blank(c) =>
                     /\ isLoading' = isLoading
                     /\ error' = error
                     /\ UNCHANGED vars]_vars

\* A session showing the error of a failed audio exchange, where a blank
\* submission leaves that error in place.
C28_Witness ==
    /\ isConversationActive
    /\ ~isLoading
    /\ pending = {}
    /\ messages = <<>>
    /\ error # NoError
    /\ error[1] = "Audio processing failed"
    /\ \E c \in ContentSet : ~SendGuard(c)

\* ---------------------------------------------------------------- C29
\* C29: the session lifecycle is closed: in every state of a running
\* session with no exchange outstanding, the application offers endSession
\* (a control that ends the conversation can be used).
C29_LifecycleClosed ==
    /\ isConversationActive
    /\ ~isLoading
    /\ pending = {}
    => ENABLED EndControl

\* ---------------------------------------------------------------- C30
\* The playback of a call has reached a terminal outcome: its normal end,
\* a media error, or the rejection of play().
Terminal(call) == call.element \in { "ended", "error", "blocked" }

\* C30: on every terminal outcome of a playAudioFromBlob call the object
\* URL it created has been released and the promise it returned is
\* settled, fulfilled after a normal end and rejected otherwise.
C30_BlobUrlReleased ==
    \A i \in 1..Len(blobPlays) :
        Terminal(blobPlays[i]) =>
            /\ blobPlays[i].url \notin objectUrls
            /\ blobPlays[i].promise =
                   (IF blobPlays[i].element = "ended"
                    THEN "fulfilled" ELSE "rejected")

====
